---------------------------- MODULE Spec2Model ----------------------------
(***************************************************************************)
(* A model of train_all of apps/ml_pipeline/model_trainer.py: the label    *)
(* encoding, the size-adaptive choice of the train/test split, the two     *)
(* parallel splits, the training loop over the four configured pipelines   *)
(* with its artifact files, and the choice of the best model.              *)
(*                                                                         *)
(* Label strings are modelled by integers that sort as the strings do      *)
(* (LabelOf); they are disjoint from the integer codes 0..k-1 the label    *)
(* encoder produces.  A row of X is identified by its position 1..n.       *)
(* An accuracy is the pair (matches, held-out rows).                       *)
(***************************************************************************)
EXTENDS Integers, Sequences, FiniteSets, TLC

\* ---------------------------------------------------------------- bounds
MaxRows == 51
MaxClasses == 4

\* ------------------------------------------------------ program constants
FEATURES == <<"orbital_period", "transit_duration", "planet_radius", "stellar_temp">>
ModelNames == <<"RandomForest", "SVM", "NeuralNet", "XGBoost">>
RANDOM_STATE == 42
MinSamples == 4
MinClasses == 2
FractionThreshold == 50
TestFractionPct == 20
MinStratifyRows == 10

\* ---------------------------------------------------------------- helpers
Max(a, b) == IF a >= b THEN a ELSE b
Min(a, b) == IF a <= b THEN a ELSE b
CeilDiv(a, b) == (a + b - 1) \div b
Range(s) == {s[i] : i \in DOMAIN s}
SetMin(S) == CHOOSE m \in S : \A x \in S : m <= x
SetMax(S) == CHOOSE m \in S : \A x \in S : m >= x
Count(s, v) == Cardinality({i \in DOMAIN s : s[i] = v})
Take(s, m) == SubSeq(s, 1, m)
Drop(s, m) == SubSeq(s, m + 1, Len(s))
Gather(col, idx) == [i \in DOMAIN idx |-> col[idx[i]]]

RECURSIVE SortedSeq(_)
SortedSeq(S) == IF S = {} THEN <<>>
                ELSE <<SetMin(S)>> \o SortedSeq(S \ {SetMin(S)})

RECURSIVE Flatten(_)
Flatten(ss) == IF ss = <<>> THEN <<>> ELSE Head(ss) \o Flatten(Tail(ss))

\* ----------------------------------------------------- the label column
\* The label string of class j; the strings sort as the integers do.
LabelOf(j) == 10 + 3 * j

\* A label column of n rows cycling through k classes (in descending order
\* when rev), whose last row carries a label no other row has when rare.
MakeLabels(n, k, rare, rev) ==
    [i \in 1..n |->
        IF rare /\ i = n THEN LabelOf(0)
        ELSE LET j == ((i - 1) % k) + 1
             IN  LabelOf(IF rev THEN k + 1 - j ELSE j)]

nunique(col) == Cardinality(Range(col))
ValueCountsMin(col) == SetMin({Count(col, v) : v \in Range(col)})

\* ------------------------------------------------------- LabelEncoder
\* fit: classes_ is the sorted sequence of the distinct labels.
FitClasses(col) == SortedSeq(Range(col))
\* transform: the position of the label in classes_, counted from 0.
Encode(classes, l) == (CHOOSE c \in 1..Len(classes) : classes[c] = l) - 1
\* Decode handing the code back.
DecodeRaw(classes, c) == c

\* inverse_transform: the label at that position.
Decode(classes, c) == classes[c + 1]
FitTransform(col) == [i \in DOMAIN col |-> Encode(FitClasses(col), col[i])]
\* inverse_transform raises ValueError on a code that is no position.
DecodeRaises(classes, codes) == \E i \in DOMAIN codes : codes[i] \notin 0..(Len(classes) - 1)

\* ------------------------------------------------------- split strategy
\* TestSize taking the fraction only above the threshold.
TestSizeStrictThreshold(n) ==
    IF n > FractionThreshold
    THEN [kind |-> "fraction", value |-> TestFractionPct]
    ELSE [kind |-> "rows", value |-> Max(2, Min(n \div 3, n - 1))]

\* TestSize without the floor of 2 rows.
TestSizeNoFloor(n) ==
    IF n >= FractionThreshold
    THEN [kind |-> "fraction", value |-> TestFractionPct]
    ELSE [kind |-> "rows", value |-> Min(n \div 3, n - 1)]

TestSize(n) ==
    IF n >= FractionThreshold
    THEN [kind |-> "fraction", value |-> TestFractionPct]
    ELSE [kind |-> "rows", value |-> Max(2, Min(n \div 3, n - 1))]

\* Stratify without the check of the smallest class.
StratifyIgnoresClassSize(col) ==
    nunique(col) >= MinClasses /\ Len(col) >= MinStratifyRows

Stratify(col) ==
    nunique(col) >= MinClasses /\ ValueCountsMin(col) >= 2 /\ Len(col) >= MinStratifyRows

\* ------------------------------------------------ train_test_split (sklearn)
\* The held-out row count: ceil(fraction * n) for a fraction, else the count.
NTest(n, ts) == IF ts.kind = "fraction" THEN CeilDiv(n * ts.value, 100) ELSE ts.value
NTrain(n, ts) == n - NTest(n, ts)

\* The shuffle drawn from the generator seeded with random_state: a fixed
\* permutation of the positions that depends on the length only.
Permute(s) == [i \in 1..Len(s) |-> s[((RANDOM_STATE + Len(s) - i) % Len(s)) + 1]]

\* np.unique(col, return_inverse=True): each row's class index, 0-based, in
\* the sorted order of the distinct values.
UniqueInverse(col) == [i \in DOMAIN col |-> Cardinality({v \in Range(col) : v < col[i]})]
ClassCounts(yidx) == [c \in Range(yidx) |-> Count(yidx, c)]
RowsOfClass(yidx, c) == SortedSeq({i \in DOMAIN yidx : yidx[i] = c})

RECURSIVE SumOver(_, _)
SumOver(f, S) == IF S = {} THEN 0
                 ELSE LET c == CHOOSE x \in S : TRUE IN f[c] + SumOver(f, S \ {c})

\* _approximate_mode: draws rows spread over the classes in proportion to
\* counts; the rows left after rounding down go to the classes with the
\* largest remainders (the seeded draw among equal remainders: lowest class).
ApproxMode(counts, draws) ==
    LET C == DOMAIN counts
        total == SumOver(counts, C)
        floored == [c \in C |-> (counts[c] * draws) \div total]
        rem == [c \in C |-> (counts[c] * draws) % total]
        need == draws - SumOver(floored, C)
        before(c) == Cardinality({d \in C : rem[d] > rem[c] \/ (rem[d] = rem[c] /\ d < c)})
    IN  [c \in C |-> floored[c] + (IF before(c) < need THEN 1 ELSE 0)]

\* ShuffleSplit: the first nTest shuffled rows are held out.
ShuffleIndices(n, nTrain, nTest) ==
    LET perm == Permute([i \in 1..n |-> i])
    IN  [train |-> SubSeq(perm, nTest + 1, nTest + nTrain), test |-> Take(perm, nTest)]

\* StratifiedShuffleSplit: per class, in class-index order, the shuffled rows
\* of the class are dealt to train and test; both sides are shuffled again.
StratifiedIndices(col, nTrain, nTest) ==
    LET yidx == UniqueInverse(col)
        k == Cardinality(Range(yidx))
        counts == ClassCounts(yidx)
        n_i == ApproxMode(counts, nTrain)
        t_i == ApproxMode([c \in DOMAIN counts |-> counts[c] - n_i[c]], nTest)
        rows(c) == Permute(RowsOfClass(yidx, c))
        trainParts == [c \in 1..k |-> Take(rows(c - 1), n_i[c - 1])]
        testParts == [c \in 1..k |-> SubSeq(rows(c - 1), n_i[c - 1] + 1, n_i[c - 1] + t_i[c - 1])]
    IN  [train |-> Permute(Flatten(trainParts)), test |-> Permute(Flatten(testParts))]

\* The ValueError cases of train_test_split.
SplitRaises(n, ts, strat, col) ==
    \/ n = 0
    \/ ts.kind = "rows" /\ (ts.value >= n \/ ts.value <= 0)
    \/ NTrain(n, ts) <= 0
    \/ strat /\ \/ ValueCountsMin(col) < 2
                \/ NTrain(n, ts) < nunique(col)
                \/ NTest(n, ts) < nunique(col)

\* The rows train_test_split(X, labels, test_size, random_state, stratify)
\* puts on each side; col is the stratify argument when strat.
TrainTestSplit(n, ts, strat, col) ==
    IF strat THEN StratifiedIndices(col, NTrain(n, ts), NTest(n, ts))
    ELSE ShuffleIndices(n, NTrain(n, ts), NTest(n, ts))

\* ------------------------------------------------------------ the program
VARIABLES
    pc,               \* the statement train_all is about to run
    error,            \* "none", or what raised: "ValueError" (validation or a
                      \* split), or the failing call of the loop: "fit",
                      \* "predict", "open", "dump"
    y,                \* df[TARGET], the label column
    classes,          \* label_encoder.classes_
    y_encoded,
    test_size,
    stratify,         \* whether stratify is not None
    X_train, X_test,  \* the rows of X on each side of the first split
    y_train, y_test,
    y_train_encoded, y_test_encoded,
    i,                \* position of the running configuration in configs
    fitted,           \* fitted pipelines of this run: name -> classes seen in training
    y_pred,           \* the predictions being scored, as label strings
    results,          \* name -> accuracy
    files,            \* MODELS_DIR/<name>.pkl for each name
    best              \* MODELS_DIR/BEST.txt

vars == <<pc, error, y, classes, y_encoded, test_size, stratify, X_train, X_test,
          y_train, y_test, y_train_encoded, y_test_encoded, i, fitted, y_pred,
          results, files, best>>

Names == Range(ModelNames)
Untouched == [status |-> "untouched", data |-> [model |-> "none"]]
Truncated == [status |-> "truncated", data |-> [model |-> "none"]]
Predictors == {"best", "lowest", "highest"}

Init ==
    /\ \E n \in 0..MaxRows, k \in 1..MaxClasses, rare \in BOOLEAN, rev \in BOOLEAN :
          y = MakeLabels(n, k, rare, rev)
    /\ pc = "prepare"
    /\ error = "none"
    /\ classes = <<>>
    /\ y_encoded = <<>>
    /\ test_size = [kind |-> "unset", value |-> 0]
    /\ stratify = FALSE
    /\ X_train = <<>> /\ X_test = <<>>
    /\ y_train = <<>> /\ y_test = <<>>
    /\ y_train_encoded = <<>> /\ y_test_encoded = <<>>
    /\ i = 1
    /\ fitted = <<>>
    /\ y_pred = <<>>
    /\ results = <<>>
    /\ files = [nm \in Names |-> Untouched]
    /\ best = "untouched"

Raise(e) == pc' = "failed" /\ error' = e

\* Lines 33-49: encode the labels, choose the test size and the stratification.
Prepare ==
    /\ pc = "prepare"
    /\ classes' = FitClasses(y)
    /\ y_encoded' = FitTransform(y)
    /\ test_size' = TestSize(Len(y))
    /\ stratify' = Stratify(y)
    /\ pc' = "validate"
    /\ UNCHANGED <<error, y, X_train, X_test, y_train, y_test, y_train_encoded,
                   y_test_encoded, i, fitted, y_pred, results, files, best>>

\* Invalid without the check of the number of classes.
InvalidSizeOnly(col) == Len(col) < MinSamples

\* Lines 51-54: the conditions of the two validation errors.
Invalid(col) == Len(col) < MinSamples \/ nunique(col) < MinClasses

ValidateFails ==
    /\ pc = "validate"
    /\ Invalid(y)
    /\ Raise("ValueError")
    /\ UNCHANGED <<y, classes, y_encoded, test_size, stratify, X_train, X_test, y_train,
                   y_test, y_train_encoded, y_test_encoded, i, fitted, y_pred, results,
                   files, best>>

ValidateOk ==
    /\ pc = "validate"
    /\ ~Invalid(y)
    /\ pc' = "split"
    /\ UNCHANGED <<error, y, classes, y_encoded, test_size, stratify, X_train, X_test,
                   y_train, y_test, y_train_encoded, y_test_encoded, i, fitted, y_pred,
                   results, files, best>>

\* Lines 55-57: the split on the string labels.
SplitFails ==
    /\ pc = "split"
    /\ SplitRaises(Len(y), test_size, stratify, y)
    /\ Raise("ValueError")
    /\ UNCHANGED <<y, classes, y_encoded, test_size, stratify, X_train, X_test, y_train,
                   y_test, y_train_encoded, y_test_encoded, i, fitted, y_pred, results,
                   files, best>>

Split ==
    /\ pc = "split"
    /\ ~SplitRaises(Len(y), test_size, stratify, y)
    /\ LET sp == TrainTestSplit(Len(y), test_size, stratify, y)
       IN  /\ X_train' = sp.train
           /\ X_test' = sp.test
           /\ y_train' = Gather(y, sp.train)
           /\ y_test' = Gather(y, sp.test)
    /\ pc' = "split_encoded"
    /\ UNCHANGED <<error, y, classes, y_encoded, test_size, stratify, y_train_encoded,
                   y_test_encoded, i, fitted, y_pred, results, files, best>>

\* EncodedStratify never stratifying the second split.
EncodedStratifyNever(strat) == FALSE

\* Line 61: stratify=y_encoded if stratify is not None else None.
EncodedStratify(strat) == strat

\* Lines 60-62: the split on the encoded labels; its X parts are discarded.
SplitEncoded ==
    /\ pc = "split_encoded"
    /\ IF SplitRaises(Len(y), test_size, EncodedStratify(stratify), y_encoded)
       THEN /\ Raise("ValueError")
            /\ UNCHANGED <<y_train_encoded, y_test_encoded>>
       ELSE LET sp == TrainTestSplit(Len(y), test_size, EncodedStratify(stratify), y_encoded)
            IN  /\ y_train_encoded' = Gather(y_encoded, sp.train)
                /\ y_test_encoded' = Gather(y_encoded, sp.test)
                /\ pc' = "fit"
                /\ error' = error
    /\ UNCHANGED <<y, classes, y_encoded, test_size, stratify, X_train, X_test, y_train,
                   y_test, i, fitted, y_pred, results, files, best>>

Name == ModelNames[i]
UsesEncoded(nm) == nm = "XGBoost"

\* Lines 119/125: model.fit on the training rows.
Fit ==
    /\ pc = "fit"
    /\ fitted' = fitted @@ (Name :> Range(IF UsesEncoded(Name) THEN y_train_encoded ELSE y_train))
    /\ pc' = "evaluate"
    /\ UNCHANGED <<error, y, classes, y_encoded, test_size, stratify, X_train, X_test,
                   y_train, y_test, y_train_encoded, y_test_encoded, i, y_pred, results,
                   files, best>>

FitFails ==
    /\ pc = "fit"
    /\ Raise("fit")
    /\ UNCHANGED <<y, classes, y_encoded, test_size, stratify, X_train, X_test, y_train,
                   y_test, y_train_encoded, y_test_encoded, i, fitted, y_pred, results,
                   files, best>>

\* model.predict: one of the classes seen in training for each held-out row.
Predict(p, truth, seen) ==
    [r \in DOMAIN truth |->
        CASE p = "best" -> IF truth[r] \in seen THEN truth[r] ELSE SetMin(seen)
          [] p = "lowest" -> SetMin(seen)
          [] OTHER -> SetMax(seen)]

\* Line 122: label_encoder.inverse_transform(y_pred).
InverseTransform(codes) == [r \in DOMAIN codes |-> Decode(classes, codes[r])]

\* accuracy_score: the share of exact matches.
AccuracyScore(truth, pred) ==
    [num |-> Cardinality({r \in DOMAIN truth : truth[r] = pred[r]}), den |-> Len(truth)]

\* Lines 120-129: predict, decode for XGBoost, score, record.
Evaluate ==
    /\ pc = "evaluate"
    /\ \E p \in Predictors :
          LET pred == IF UsesEncoded(Name)
                      THEN InverseTransform(Predict(p, y_test_encoded, fitted[Name]))
                      ELSE Predict(p, y_test, fitted[Name])
          IN  /\ y_pred' = pred
              /\ results' = results @@ (Name :> [accuracy |-> AccuracyScore(y_test, pred)])
    /\ pc' = "save"
    /\ UNCHANGED <<error, y, classes, y_encoded, test_size, stratify, X_train, X_test,
                   y_train, y_test, y_train_encoded, y_test_encoded, i, fitted, files, best>>

EvaluateFails ==
    /\ pc = "evaluate"
    /\ Raise("predict")
    /\ UNCHANGED <<y, classes, y_encoded, test_size, stratify, X_train, X_test, y_train,
                   y_test, y_train_encoded, y_test_encoded, i, fitted, y_pred, results,
                   files, best>>

\* ModelData packaging the label encoder with every model.
ModelDataAlwaysEncoder(nm) ==
    [model |-> [name |-> nm, classes_ |-> fitted[nm]], features |-> FEATURES,
     label_encoder |-> [classes_ |-> classes]]

\* Lines 133-135: the packaged object.
ModelData(nm) ==
    IF UsesEncoded(nm)
    THEN [model |-> [name |-> nm, classes_ |-> fitted[nm]], features |-> FEATURES,
          label_encoder |-> [classes_ |-> classes]]
    ELSE [model |-> [name |-> nm, classes_ |-> fitted[nm]], features |-> FEATURES]

AfterSave == IF i < Len(ModelNames) THEN "fit" ELSE "choose_best"

\* Lines 137-138: open the file for writing and dump the package into it.
Save ==
    /\ pc = "save"
    /\ files' = [files EXCEPT ![Name] = [status |-> "written", data |-> ModelData(Name)]]
    /\ pc' = AfterSave
    /\ i' = IF i < Len(ModelNames) THEN i + 1 ELSE i
    /\ UNCHANGED <<error, y, classes, y_encoded, test_size, stratify, X_train, X_test,
                   y_train, y_test, y_train_encoded, y_test_encoded, fitted, y_pred,
                   results, best>>

\* open() raises: the file is as it was.
SaveOpenFails ==
    /\ pc = "save"
    /\ Raise("open")
    /\ UNCHANGED <<y, classes, y_encoded, test_size, stratify, X_train, X_test, y_train,
                   y_test, y_train_encoded, y_test_encoded, i, fitted, y_pred, results,
                   files, best>>

\* pickle.dump raises: open(..., 'wb') has already created or truncated the file.
SaveDumpFails ==
    /\ pc = "save"
    /\ files' = [files EXCEPT ![Name] = Truncated]
    /\ Raise("dump")
    /\ UNCHANGED <<y, classes, y_encoded, test_size, stratify, X_train, X_test, y_train,
                   y_test, y_train_encoded, y_test_encoded, i, fitted, y_pred, results, best>>

\* accuracy a is greater than accuracy b.
Greater(a, b) == a.num * b.den > b.num * a.den

\* MaxFrom replacing the running maximum by an equal item too.
RECURSIVE MaxFromLast(_, _, _)
MaxFromLast(res, j, cur) ==
    IF j > Len(ModelNames) THEN cur
    ELSE IF ~Greater(res[cur].accuracy, res[ModelNames[j]].accuracy)
         THEN MaxFromLast(res, j + 1, ModelNames[j])
         ELSE MaxFromLast(res, j + 1, cur)

\* max(results.items(), key=accuracy): scanning in insertion order, the
\* running maximum is replaced only by a strictly greater item.
RECURSIVE MaxFrom(_, _, _)
MaxFrom(res, j, cur) ==
    IF j > Len(ModelNames) THEN cur
    ELSE IF Greater(res[ModelNames[j]].accuracy, res[cur].accuracy)
         THEN MaxFrom(res, j + 1, ModelNames[j])
         ELSE MaxFrom(res, j + 1, cur)
BestOf(res) == MaxFrom(res, 2, ModelNames[1])

\* Lines 141-149: choose the best model and write its name to BEST.txt.
ChooseBest ==
    /\ pc = "choose_best"
    /\ best' = BestOf(results)
    /\ pc' = "done"
    /\ UNCHANGED <<error, y, classes, y_encoded, test_size, stratify, X_train, X_test,
                   y_train, y_test, y_train_encoded, y_test_encoded, i, fitted, y_pred,
                   results, files>>

Next ==
    \/ Prepare
    \/ ValidateFails
    \/ ValidateOk
    \/ SplitFails
    \/ Split
    \/ SplitEncoded
    \/ Fit
    \/ FitFails
    \/ Evaluate
    \/ EvaluateFails
    \/ Save
    \/ SaveOpenFails
    \/ SaveDumpFails
    \/ ChooseBest

Spec == Init /\ [][Next]_vars

\* ----------------------------------------------------------------- claims
Started == pc # "prepare"
InLoop == pc \in {"fit", "evaluate", "save", "choose_best", "done"}
Distinct(col) == Cardinality(Range(col))
NoFileTouched == \A nm \in Names : files[nm].status = "untouched"

\* C1: a dataset with fewer than 4 rows or fewer than 2 distinct classes ends
\* the run with a ValueError right after validation: no model is fitted, no
\* artifact file is written or modified, and BEST.txt is not written.
C1_ValidationRejects ==
    (Len(y) < 4 \/ Distinct(y) < 2) =>
        /\ pc \in {"prepare", "validate", "failed"}
        /\ pc = "failed" => error = "ValueError"
        /\ DOMAIN fitted = {}
        /\ DOMAIN results = {}
        /\ NoFileTouched
        /\ best = "untouched"

C1_Witness ==
    /\ pc = "failed" /\ error = "ValueError"
    /\ Len(y) >= 4 /\ Distinct(y) < 2
    /\ NoFileTouched

\* C2 (as claimed): when model N fails in fitting, evaluation or serialization,
\* every model before N has its artifact written, neither N nor a later model
\* has a file written or touched or is trained further, BEST.txt is not
\* written, and a written artifact belongs to a fitted and evaluated model.
C2_FailureLeavesNoArtifactForN ==
    (pc = "failed" /\ error \in {"fit", "predict", "open", "dump"}) =>
        /\ \A j \in 1..(i - 1) : files[ModelNames[j]].status = "written"
        /\ \A j \in i..Len(ModelNames) : files[ModelNames[j]].status = "untouched"
        /\ \A j \in (i + 1)..Len(ModelNames) :
              ModelNames[j] \notin DOMAIN fitted /\ ModelNames[j] \notin DOMAIN results
        /\ best = "untouched"
        /\ \A nm \in Names : files[nm].status = "written" =>
              nm \in DOMAIN fitted /\ nm \in DOMAIN results

\* C3: after a successful run BEST.txt names a model of maximal accuracy, and
\* every model before it in configuration order has a strictly lower accuracy.
C3_BestIsFirstMaximum ==
    pc = "done" =>
        /\ best \in Names
        /\ \A nm \in Names :
              results[nm].accuracy.num * results[best].accuracy.den
                 <= results[best].accuracy.num * results[nm].accuracy.den
        /\ \A j \in 1..Len(ModelNames) :
              (\E b \in (j + 1)..Len(ModelNames) : ModelNames[b] = best) =>
                  results[ModelNames[j]].accuracy.num * results[best].accuracy.den
                     < results[best].accuracy.num * results[ModelNames[j]].accuracy.den

C3_Witness ==
    /\ pc = "done"
    /\ best = "SVM"
    /\ results["NeuralNet"].accuracy = results["SVM"].accuracy
    /\ results["XGBoost"].accuracy = results["SVM"].accuracy
    /\ results["RandomForest"].accuracy.num < results["SVM"].accuracy.num

\* C4: after a successful run each of the four names has a written artifact
\* holding its fitted pipeline and the four feature names; the XGBoost
\* artifact also holds the label encoder, the other three do not.
C4_ArtifactsComplete ==
    pc = "done" =>
        \A nm \in {"RandomForest", "SVM", "NeuralNet", "XGBoost"} :
            /\ files[nm].status = "written"
            /\ files[nm].data.model = [name |-> nm, classes_ |-> fitted[nm]]
            /\ files[nm].data.features =
                  <<"orbital_period", "transit_duration", "planet_radius", "stellar_temp">>
            /\ ("label_encoder" \in DOMAIN files[nm].data) <=> (nm = "XGBoost")
            /\ nm = "XGBoost" => files[nm].data.label_encoder.classes_ = classes

C4_Witness ==
    /\ pc = "done"
    /\ \A nm \in Names : files[nm].status = "written"
    /\ "label_encoder" \in DOMAIN files["XGBoost"].data
    /\ Len(classes) >= 3

\* C5: the test size of n rows is the fraction 0.2 when n >= 50 and otherwise
\* the row count max(2, min(n // 3, n - 1)); 9 rows give a test size of 3.
C5_TestSizeRule ==
    Started =>
        LET n == Len(y)
            third == IF n \div 3 <= n - 1 THEN n \div 3 ELSE n - 1
        IN  /\ n >= 50 => test_size = [kind |-> "fraction", value |-> 20]
            /\ n < 50 => test_size = [kind |-> "rows",
                                      value |-> IF third >= 2 THEN third ELSE 2]
            /\ n = 9 => test_size = [kind |-> "rows", value |-> 3]

C5_Witness ==
    /\ Started
    /\ Len(y) = 9
    /\ test_size = [kind |-> "rows", value |-> 3]

\* C6: stratification is chosen exactly when there are at least 2 classes,
\* every class has at least 2 members and there are at least 10 rows; a class
\* of fewer than 2 members rules it out at any size.
C6_StratifyRule ==
    Started =>
        /\ stratify <=> /\ Distinct(y) >= 2
                        /\ \A v \in Range(y) : Count(y, v) >= 2
                        /\ Len(y) >= 10
        /\ (\E v \in Range(y) : Count(y, v) < 2) => ~stratify

C6_Witness ==
    /\ Started
    /\ Len(y) >= 50
    /\ \E v \in Range(y) : Count(y, v) = 1
    /\ ~stratify

\* C7: for 4 <= n <= 49 rows the chosen test size t is a row count with
\* 2 <= t <= n - 1, and a split made with it holds out t >= 2 rows and leaves
\* at least 1 row for training.
C7_TestSizeBounds ==
    (Started /\ 4 <= Len(y) /\ Len(y) <= 49) =>
        /\ test_size.kind = "rows"
        /\ 2 <= test_size.value /\ test_size.value <= Len(y) - 1
        /\ InLoop => /\ Len(X_test) = test_size.value
                     /\ Len(X_train) >= 1
                     /\ Len(X_train) + Len(X_test) = Len(y)

C7_Witness ==
    /\ pc = "fit"
    /\ Len(y) = 4
    /\ Len(X_test) = 2 /\ Len(X_train) = 2

\* C8: the encoding maps the distinct labels one-to-one onto the codes
\* 0..k-1 and decoding is its inverse; the decoded XGBoost predictions that
\* are scored are labels of the dataset, never codes.
C8_EncodingBijective ==
    Started =>
        LET k == Distinct(y) IN
        /\ Len(classes) = k
        /\ \A r \in DOMAIN y : y_encoded[r] = Encode(classes, y[r])
        /\ {Encode(classes, l) : l \in Range(y)} = 0..(k - 1)
        /\ \A l \in Range(y) : Decode(classes, Encode(classes, l)) = l
        /\ \A c \in 0..(k - 1) :
              Decode(classes, c) \in Range(y) /\ Encode(classes, Decode(classes, c)) = c
        /\ (ModelNames[i] = "XGBoost" /\ pc \in {"save", "choose_best", "done"}) =>
              /\ Len(y_pred) = Len(y_test)
              /\ Range(y_pred) \subseteq Range(y)
              /\ Range(y_pred) \cap (0..(k - 1)) = {}

C8_Witness ==
    /\ pc = "save"
    /\ ModelNames[i] = "XGBoost"
    /\ Distinct(y) >= 3
    /\ Cardinality(Range(y_pred)) >= 2

\* C9: the split on the encoded labels puts the same rows, in the same order,
\* on each side as the split on the string labels, so y_train_encoded and
\* y_test_encoded are the row-for-row encodings of y_train and y_test.
C9_SplitsAgree ==
    /\ InLoop =>
          /\ y_train_encoded = [r \in DOMAIN y_train |-> Encode(classes, y_train[r])]
          /\ y_test_encoded = [r \in DOMAIN y_test |-> Encode(classes, y_test[r])]
          /\ y_train_encoded = Gather(y_encoded, X_train)
    /\ (pc = "fit" /\ i = 1) =>
          TrainTestSplit(Len(y), test_size, EncodedStratify(stratify), y_encoded)
             = [train |-> X_train, test |-> X_test]

C9_Witness ==
    /\ pc = "fit" /\ i = 1
    /\ stratify
    /\ Distinct(y) >= 3
    /\ y[1] > y[2]

\* C10 (as claimed): when stratification is chosen for a valid dataset, the
\* test rows and the training rows are each at least as many as the classes,
\* and the split does not fail.
C10_StratifiedSplitFits ==
    (Started /\ stratify /\ Len(y) >= 4 /\ Distinct(y) >= 2) =>
        /\ NTest(Len(y), test_size) >= Distinct(y)
        /\ NTrain(Len(y), test_size) >= Distinct(y)
        /\ pc # "failed"

=============================================================================
